---------------------------- MODULE Spec2Model ----------------------------
(***************************************************************************)
(* Apartment-versus-portfolio comparison (plot.py, interactive_plot.py).   *)
(*                                                                         *)
(* Money, rates and index levels are Python floats in the source.  They    *)
(* are modelled as fixed-point numbers: the integer x stands for the real  *)
(* x / Scale, and every multiplication and division rounds its result to   *)
(* the nearest representable number, as a float operation does.            *)
(***************************************************************************)
EXTENDS Integers, Sequences, FiniteSets, TLC

VARIABLES
    df_cpi,          \* interactive_plot.py: preloaded CPI table (rows in file order)
    interest_rates,  \* interactive_plot.py: preloaded interest-rate row
    stock_returns,   \* interactive_plot.py: preloaded S&P 500 series (year -> percent)
    bond_returns,    \* interactive_plot.py: preloaded bond series (year -> percent)
    fn,              \* name of the function whose call completed last
    args,            \* the arguments of that call
    ret,             \* what the call returned or raised
    df_object        \* the price table object passed to a simulator, after the call

vars == <<df_cpi, interest_rates, stock_returns, bond_returns, fn, args, ret,
          df_object>>

-----------------------------------------------------------------------------
(* Fixed-point arithmetic standing for float arithmetic.                   *)

Scale == 10^6
Half == 10^3            \* Scale = Half * Half, used to multiply without overflow

Abs(x) == IF x < 0 THEN -x ELSE x
Sgn(x) == IF x < 0 THEN -1 ELSE 1

\* float(n) for an integer n
Num(n) == n * Scale

\* a * b of two non-negative numbers, rounded to nearest
MulNN(a, b) ==
    LET ah == a \div Half
        al == a % Half
        bh == b \div Half
        bl == b % Half
        lo == al * bl + (Scale \div 2)
        mid == ah * bl + al * bh + (lo \div Half)
    IN  ah * bh + (mid \div Half)

\* a * b
Mul(a, b) == Sgn(a) * Sgn(b) * MulNN(Abs(a), Abs(b))

\* the Scale-th part digits of r / b, one decimal digit at a time
RECURSIVE DivDigits(_, _, _, _)
DivDigits(r, b, unit, acc) ==
    IF unit = 0
    THEN IF 2 * r >= b THEN acc + 1 ELSE acc
    ELSE LET r10 == r * 10
         IN  DivDigits(r10 % b, b, unit \div 10, acc + (r10 \div b) * unit)

\* a / b of non-negative a and positive b, rounded to nearest
DivNN(a, b) == DivDigits(a % b, b, Scale \div 10, (a \div b) * Scale)

\* a / b, b # 0
Div(a, b) == Sgn(a) * Sgn(b) * DivNN(Abs(a), Abs(b))

\* a / n for an integer n # 0
DivInt(a, n) == Div(a, Num(n))

\* x ** m for an integer m >= 0, by repeated squaring
RECURSIVE Pow(_, _)
Pow(x, m) ==
    IF m = 0 THEN Num(1)
    ELSE LET h == Pow(x, m \div 2)
             sq == Mul(h, h)
         IN  IF m % 2 = 0 THEN sq ELSE Mul(sq, x)


-----------------------------------------------------------------------------
(* Bounds of the model.                                                    *)

MaxTerm == 3          \* loan terms are 1..MaxTerm years
NumYears == 4         \* data years are FirstYear..FirstYear+NumYears-1
MaxCpiRows == 3       \* CPI tables passed to the normalizer alone have 1..MaxCpiRows rows

FirstYear == 2000
Years == FirstYear..(FirstYear + NumYears - 1)
Terms == 1..MaxTerm

\* annual interest rates (fractions): 0, 3%, 6%, 12%
Rates == {0, 30000, 60000, 120000}
\* loan principals
Principals == {Num(75), Num(90), Num(100), Num(150), 33333333}

-----------------------------------------------------------------------------
(* plot.py: the mortgage model.                                            *)

calculate_mortgage_payment(loan_amount, interest_rate, term_years) ==
    LET r_monthly == DivInt(interest_rate, 12)
        n_months == term_years * 12
        growth == Pow(Num(1) + r_monthly, n_months)
    IN  IF r_monthly = 0
        THEN DivInt(loan_amount, n_months)
        ELSE Div(Mul(loan_amount, Mul(r_monthly, growth)), growth - Num(1))

remaining_balance(k, P, r_annual, A, n) ==
    IF k <= 0 THEN P
    ELSE IF k > n THEN 0
    ELSE LET r_monthly == DivInt(r_annual, 12)
             months == k * 12
             M == DivInt(A, 12)
             growth == Pow(Num(1) + r_monthly, months)
         IN  IF r_monthly # 0
             THEN Mul(P, growth) - Div(Mul(M, growth - Num(1)), r_monthly)
             ELSE P - M * months

-----------------------------------------------------------------------------
(* Calls of the mortgage functions on their own.                           *)

NoData == [none |-> TRUE]

InitCall ==
    /\ fn = "none"
    /\ args = NoData
    /\ ret = NoData
    /\ df_object = NoData

InitNoPreload ==
    /\ df_cpi = <<>>
    /\ interest_rates = NoData
    /\ stock_returns = NoData
    /\ bond_returns = NoData

preload == <<df_cpi, interest_rates, stock_returns, bond_returns>>

\* the caller takes the result; the next call can be made
Return ==
    /\ fn # "none"
    /\ fn' = "none"
    /\ args' = NoData
    /\ ret' = NoData
    /\ UNCHANGED preload
    /\ df_object' = NoData

CallMortgagePayment ==
    /\ fn = "none"
    /\ \E P \in Principals, r \in Rates, n \in Terms :
        /\ fn' = "calculate_mortgage_payment"
        /\ args' = [loan_amount |-> P, interest_rate |-> r, term_years |-> n]
        /\ ret' = calculate_mortgage_payment(P, r, n)
        /\ UNCHANGED preload
        /\ df_object' = NoData

\* annual payments other than the one of the loan's own schedule
Payments == {Num(12), Num(120)}

\* remaining_balance with the annual payment of the loan's own schedule
\* (A = M * 12, as both simulators pass it) or with another payment
CallRemainingBalance ==
    /\ fn = "none"
    /\ \E P \in Principals, r \in Rates, n \in Terms, k \in (-1)..(MaxTerm + 2),
          own \in BOOLEAN, other \in Payments :
        LET M == calculate_mortgage_payment(P, r, n)
            A == IF own THEN M * 12 ELSE other
        IN  /\ fn' = "remaining_balance"
            /\ args' = [k |-> k, P |-> P, r_annual |-> r, A |-> A, n |-> n,
                        own |-> own]
            /\ ret' = remaining_balance(k, P, r, A, n)
            /\ UNCHANGED preload
            /\ df_object' = NoData

InitMortgage == InitCall /\ InitNoPreload
NextMortgage == CallMortgagePayment \/ CallRemainingBalance \/ Return
SpecMortgage == InitMortgage /\ [][NextMortgage]_vars

-----------------------------------------------------------------------------
(* plot.py: the inflation normalizer.  A CPI table is a sequence of rows   *)
(* [Year, Total], Total being the percentage change of that year.          *)

\* rows with row r put in its place among the ascending rows
RECURSIVE InsertByYear(_, _)
InsertByYear(rows, r) ==
    IF rows = <<>> THEN <<r>>
    ELSE IF r.Year < Head(rows).Year THEN <<r>> \o rows
    ELSE <<Head(rows)>> \o InsertByYear(Tail(rows), r)

\* the table left in file order
KeepFileOrder(rows) == rows

\* df.sort_values('Year')
RECURSIVE SortByYear(_)
SortByYear(rows) ==
    IF rows = <<>> THEN <<>>
    ELSE InsertByYear(SortByYear(Tail(rows)), Head(rows))

base_cpi == 100

\* the loop over df_cpi.iterrows(): cpi_values after rows i..Len(rows),
\* given the mapping and the index level reached before row i
RECURSIVE CpiValues(_, _, _, _)
CpiValues(rows, i, previous_cpi, cpi_values) ==
    IF i > Len(rows) THEN cpi_values
    ELSE LET cpi_change == DivInt(rows[i].Total, 100)
             current_cpi == Mul(previous_cpi, Num(1) + cpi_change)
             year == rows[i].Year
         IN  CpiValues(rows, i + 1, current_cpi,
                 [y \in DOMAIN cpi_values \cup {year} |->
                     IF y = year THEN current_cpi ELSE cpi_values[y]])

EmptyMap == [y \in {} |-> 0]

\* the factors taken the other way round: level of the year / latest level
factors_from_latest_year(cpi_table, start_year) ==
    LET sorted == SortByYear(cpi_table)
        cpi_values == CpiValues(sorted, 1, Num(base_cpi), EmptyMap)
        latest_cpi == cpi_values[sorted[Len(sorted)].Year]
    IN  [year \in DOMAIN cpi_values |-> Div(cpi_values[year], latest_cpi)]

\* the mapping year -> adjustment factor; the table is not empty
calculate_inflation_factors(cpi_table, start_year) ==
    LET sorted == SortByYear(cpi_table)
        cpi_values == CpiValues(sorted, 1, Num(base_cpi), EmptyMap)
        latest_cpi == cpi_values[sorted[Len(sorted)].Year]
    IN  [year \in DOMAIN cpi_values |-> Div(latest_cpi, cpi_values[year])]

-----------------------------------------------------------------------------
(* Calls of the inflation normalizer on its own.                           *)

\* yearly CPI changes in percent: +3.0, -1.0
CpiChanges == {Num(3), Num(-1)}

CpiRow == [Year : Years, Total : CpiChanges]

\* the tables of n rows with one row per year, in any order
RECURSIVE CpiTables(_)
CpiTables(n) ==
    IF n = 0 THEN {<<>>}
    ELSE {Append(t, r) : t \in CpiTables(n - 1), r \in CpiRow}

DistinctYears(rows) ==
    \A i, j \in 1..Len(rows) : i # j => rows[i].Year # rows[j].Year

CpiInputs ==
    {t \in UNION {CpiTables(n) : n \in 1..MaxCpiRows} : DistinctYears(t)}

CallInflationFactors ==
    /\ fn = "none"
    /\ \E t \in CpiInputs, start_year \in {FirstYear} :
        /\ fn' = "calculate_inflation_factors"
        /\ args' = [df_cpi |-> t, start_year |-> start_year]
        /\ ret' = calculate_inflation_factors(t, start_year)
        /\ UNCHANGED preload
        /\ df_object' = NoData

InitInflation == InitCall /\ InitNoPreload
NextInflation == CallInflationFactors \/ Return
SpecInflation == InitInflation /\ [][NextInflation]_vars

-----------------------------------------------------------------------------
(* plot.py: the apartment simulator.  A price table df is a sequence of    *)
(* rows [Year, Price]; a rent table rent_df is a sequence of rows          *)
(* [Year, Rent], Rent being the monthly rent.  A call either returns the   *)
(* table of records or raises an exception.                                *)

Returned(rows) == [status |-> "returned", rows |-> rows]

\* raise ValueError(message + years)
Raised(message, years) ==
    [status |-> "raised", type |-> "ValueError", message |-> message,
     years |-> years]

Min(a, b) == IF a <= b THEN a ELSE b

RECURSIVE SumSeq(_)
SumSeq(q) == IF q = <<>> THEN 0 ELSE Head(q) + SumSeq(Tail(q))

\* the elements of q that satisfy Test, in order
SelectIdx(q, Test(_)) ==
    LET F[i \in 0..Len(q)] ==
            IF i = 0 THEN <<>>
            ELSE IF Test(i) THEN Append(F[i - 1], i) ELSE F[i - 1]
    IN  F[Len(q)]

YearsOf(rows) == {rows[i].Year : i \in 1..Len(rows)}

\* the ascending sequence of the years lo..hi-1 that are not in the set have
MissingFrom(lo, hi, have) ==
    LET F[y \in (lo - 1)..(hi - 1)] ==
            IF y < lo THEN <<>>
            ELSE IF y \in have THEN F[y - 1] ELSE Append(F[y - 1], y)
    IN  IF hi <= lo THEN <<>> ELSE F[hi - 1]

\* [raised |-> FALSE, value] or [raised |-> TRUE, year]
get_monthly_rent(year, rent_df) ==
    IF Len(rent_df) = 0
    THEN [raised |-> FALSE, value |-> 0]
    ELSE LET matching_row == SelectIdx(rent_df, LAMBDA i : rent_df[i].Year = year)
         IN  IF matching_row # <<>>
             THEN [raised |-> FALSE, value |-> rent_df[matching_row[1]].Rent]
             ELSE [raised |-> TRUE, year |-> year]

\* the rent of every year before the row's own year, also of the years
\* before the purchase
cumulative_rent_of_all_earlier_years(row, df, start_year) ==
    IF row.k <= 0
    THEN [raised |-> FALSE, value |-> 0]
    ELSE LET missing_years == MissingFrom(start_year, start_year + row.k, YearsOf(df))
             inside == SelectIdx(df, LAMBDA i : df[i].Year < start_year + row.k)
         IN  IF missing_years # <<>>
             THEN [raised |-> TRUE, years |-> missing_years]
             ELSE [raised |-> FALSE,
                   value |-> SumSeq([j \in 1..Len(inside) |-> df[inside[j]].Yearly_Rent])]

\* the rent of the years from the purchase year through the row's own year
cumulative_rent_through_year(row, df, start_year) ==
    LET inside == SelectIdx(df, LAMBDA i : /\ df[i].Year >= start_year
                                           /\ df[i].Year <= start_year + row.k)
    IN  [raised |-> FALSE,
         value |-> SumSeq([j \in 1..Len(inside) |-> df[inside[j]].Yearly_Rent])]

\* the rent of the rows the table has, without the check of the years needed
cumulative_rent_of_available_years(row, df, start_year) ==
    IF row.k <= 0
    THEN [raised |-> FALSE, value |-> 0]
    ELSE LET inside == SelectIdx(df, LAMBDA i : /\ df[i].Year >= start_year
                                                /\ df[i].Year < start_year + row.k)
         IN  [raised |-> FALSE,
              value |-> SumSeq([j \in 1..Len(inside) |-> df[inside[j]].Yearly_Rent])]

\* [raised |-> FALSE, value] or [raised |-> TRUE, years]; the rows of df
\* carry k and Yearly_Rent
calculate_cumulative_rent(row, df, start_year) ==
    IF row.k <= 0
    THEN [raised |-> FALSE, value |-> 0]
    ELSE LET missing_years == MissingFrom(start_year, start_year + row.k, YearsOf(df))
             inside == SelectIdx(df, LAMBDA i : /\ df[i].Year >= start_year
                                                /\ df[i].Year < start_year + row.k)
         IN  IF missing_years # <<>>
             THEN [raised |-> TRUE, years |-> missing_years]
             ELSE [raised |-> FALSE,
                   value |-> SumSeq([j \in 1..Len(inside) |-> df[inside[j]].Yearly_Rent])]

\* only the first year without a factor
first_missing_inflation_year(years, inflation_factors) ==
    LET missing == SelectIdx(years, LAMBDA i : years[i] \notin DOMAIN inflation_factors)
    IN  IF missing = <<>> THEN <<>> ELSE <<years[missing[1]]>>

\* df[df['Year'].map(inflation_factors).isna()]['Year'].tolist()
missing_inflation_years(years, inflation_factors) ==
    LET missing == SelectIdx(years, LAMBDA i : years[i] \notin DOMAIN inflation_factors)
    IN  [j \in 1..Len(missing) |-> years[missing[j]]]

\* payments that go on after the term
uncapped_payments(k, down_payment, A, term_years) == down_payment + k * A

\* down_payment + (min(row['k'], term_years) * A)
cumulative_payments(k, down_payment, A, term_years) ==
    down_payment + Min(k, term_years) * A

DownPaymentShare == 250000      \* 0.25
MortgageShare == 750000         \* 0.75
MaintenanceShare == 150000      \* 0.15

\* the nominal return divided by the inflation factor
deflated_return(nominal, inflation_factor) == Div(nominal, inflation_factor)

\* df['Investment_Return_Nominal'] * df['Inflation_Factor']
Investment_Return(nominal, inflation_factor) == Mul(nominal, inflation_factor)

calculate_investment_metrics(df, start_year, P, interest_rate, term_years, rent_df, inflation_factors) ==
    LET down_payment == Mul(P, DownPaymentShare)
        mortgage_amount == Mul(P, MortgageShare)
        M == calculate_mortgage_payment(mortgage_amount, interest_rate, term_years)
        A == M * 12
        rows == 1..Len(df)
        k(i) == df[i].Year - start_year
        Balance(i) == remaining_balance(k(i), mortgage_amount, interest_rate, A, term_years)
        Cumulative_Payments(i) == cumulative_payments(k(i), down_payment, A, term_years)
        rent(i) == get_monthly_rent(df[i].Year, rent_df)
        no_rent == SelectIdx(df, LAMBDA i : rent(i).raised)
        Yearly_Rent_Gross(i) == rent(i).value * 12
        Maintenance_Cost(i) == Mul(Yearly_Rent_Gross(i), MaintenanceShare)
        df_rent == [i \in rows |->
                       [Year |-> df[i].Year, k |-> k(i),
                        Yearly_Rent |-> Yearly_Rent_Gross(i) - Maintenance_Cost(i)]]
        cumulative(i) == calculate_cumulative_rent(df_rent[i], df_rent, start_year)
        no_cumulative == SelectIdx(df, LAMBDA i : cumulative(i).raised)
        missing_inflation == missing_inflation_years([i \in rows |-> df[i].Year],
                                                     inflation_factors)
        Record(i) ==
            LET Investment_Value == df[i].Price - Balance(i)
                Investment_Return_Nominal ==
                    Investment_Value - Cumulative_Payments(i) + cumulative(i).value
                Inflation_Factor == inflation_factors[df[i].Year]
            IN  [Year |-> df[i].Year,
                 Price |-> df[i].Price,
                 k |-> k(i),
                 Balance |-> Balance(i),
                 Investment_Value |-> Investment_Value,
                 Cumulative_Payments |-> Cumulative_Payments(i),
                 Yearly_Rent_Gross |-> Yearly_Rent_Gross(i),
                 Maintenance_Cost |-> Maintenance_Cost(i),
                 Yearly_Rent |-> df_rent[i].Yearly_Rent,
                 Cumulative_Rent |-> cumulative(i).value,
                 Investment_Return_Nominal |-> Investment_Return_Nominal,
                 Inflation_Factor |-> Inflation_Factor,
                 Investment_Return |-> Investment_Return(Investment_Return_Nominal,
                                                         Inflation_Factor)]
    IN  IF no_rent # <<>>
        THEN Raised("No rent data found for year", <<df[no_rent[1]].Year>>)
        ELSE IF no_cumulative # <<>>
        THEN Raised("Missing rent data for years", cumulative(no_cumulative[1]).years)
        ELSE IF missing_inflation # <<>>
        THEN Raised("Missing inflation data for years", missing_inflation)
        ELSE Returned([i \in rows |-> Record(i)])

-----------------------------------------------------------------------------
(* Data the simulators are called with.                                    *)

\* the years of the set S in ascending order
AscendingYears(S) ==
    LET F[y \in (FirstYear - 1)..(FirstYear + NumYears - 1)] ==
            IF y < FirstYear THEN <<>>
            ELSE IF y \in S THEN Append(F[y - 1], y) ELSE F[y - 1]
    IN  F[FirstYear + NumYears - 1]

\* yearly average prices: a steady rise, and a boom that ends in a crash
RisingPrices == [y \in Years |-> Num(100 + 20 * (y - FirstYear))]

BoomPrices ==
    [y \in Years |-> IF y = FirstYear + NumYears - 1
                     THEN Num(90) ELSE Num(100 + 60 * (y - FirstYear))]

PriceProfiles == {RisingPrices, BoomPrices}

\* monthly rent of a year
RentOf == [y \in Years |-> 400000 + 50000 * (y - FirstYear)]

\* CPI change of a year in percent: +2, +3, -1, +2, ...
CpiOf == [y \in Years |->
             LET d == (y - FirstYear) % 3
             IN  IF d = 0 THEN Num(2) ELSE IF d = 1 THEN Num(3) ELSE Num(-1)]

\* the price table of the years S, one row per year, ascending
PriceTable(S, price) ==
    LET ys == AscendingYears(S)
    IN  [i \in 1..Len(ys) |-> [Year |-> ys[i], Price |-> price[ys[i]]]]

\* load_rent_data: the rent table of the years S, sorted by year
RentTable(S) ==
    LET ys == AscendingYears(S)
    IN  [i \in 1..Len(ys) |-> [Year |-> ys[i], Rent |-> RentOf[ys[i]]]]

\* load_cpi_data: the CPI table of the years S
CpiTable(S) ==
    LET ys == AscendingYears(S)
    IN  [i \in 1..Len(ys) |-> [Year |-> ys[i], Total |-> CpiOf[ys[i]]]]

Intervals == {a..b : a, b \in Years} \ {{}}

\* the years a file covers: a run of years, or all years but one
YearSets == Intervals \cup {Years \ {y} : y \in Years}

\* the factors of a CPI table that covers the first years or the last years
InflationMaps ==
    {calculate_inflation_factors(CpiTable(S), FirstYear) :
        S \in {T \in Intervals : FirstYear \in T \/ FirstYear + NumYears - 1 \in T}}

\* initial_price = df.loc[df['Year'].idxmin(), 'Price'] (plot.py main, update_graph)
InitialPrice(df) == df[1].Price

\* calls with data of any shape and one loan, and calls with complete data
\* and any loan
ApartmentInputs ==
    {[df |-> PriceTable(S, RisingPrices), start_year |-> y,
      P |-> InitialPrice(PriceTable(S, RisingPrices)),
      interest_rate |-> 60000, term_years |-> Min(2, MaxTerm),
      rent_df |-> RentTable(R), inflation_factors |-> f] :
        S \in YearSets, y \in {FirstYear, FirstYear + 1},
        R \in YearSets \cup {{}}, f \in InflationMaps}
    \cup
    {[df |-> PriceTable(Years, price), start_year |-> y,
      P |-> InitialPrice(PriceTable(Years, price)),
      interest_rate |-> r, term_years |-> n,
      rent_df |-> RentTable(Years),
      inflation_factors |-> calculate_inflation_factors(CpiTable(Years), y)] :
        price \in PriceProfiles, y \in Years, r \in Rates, n \in Terms}

\* the columns of a price table as loaded
PriceColumns == {"Year", "Price"}

\* the columns calculate_investment_metrics has assigned to df, in place, when
\* it returns df or raises
assigned_columns(result) ==
    LET before_rent == {"k", "Balance", "Investment_Value", "Cumulative_Payments"}
        rent == {"Yearly_Rent_Gross", "Maintenance_Cost", "Yearly_Rent"}
        before_check == {"Cumulative_Rent", "Investment_Return_Nominal",
                         "Inflation_Factor"}
    IN  IF result.status = "returned"
        THEN before_rent \cup rent \cup before_check \cup {"Investment_Return"}
        ELSE IF result.message = "No rent data found for year" THEN before_rent
        ELSE IF result.message = "Missing rent data for years"
        THEN before_rent \cup rent
        ELSE before_rent \cup rent \cup before_check

CallInvestmentMetrics ==
    /\ fn = "none"
    /\ \E in \in ApartmentInputs :
        /\ fn' = "calculate_investment_metrics"
        /\ args' = in
        /\ ret' = calculate_investment_metrics(in.df, in.start_year, in.P,
                      in.interest_rate, in.term_years, in.rent_df,
                      in.inflation_factors)
        /\ df_object' = [columns |-> PriceColumns \cup assigned_columns(ret'),
                         is_result |-> ret'.status = "returned"]
        /\ UNCHANGED preload

-----------------------------------------------------------------------------
(* plot.py: the portfolio simulator.  A return series is a mapping from    *)
(* year to the return of that year in percent.                             *)

\* x ** (1/12) for x >= 0: the largest y between lo and hi with y ** 12 <= x
RECURSIVE Root12Between(_, _, _)
Root12Between(x, lo, hi) ==
    IF hi - lo <= 1 THEN lo
    ELSE LET mid == (lo + hi) \div 2
         IN  IF Pow(mid, 12) <= x
             THEN Root12Between(x, mid, hi)
             ELSE Root12Between(x, lo, mid)

Root12(x) == Root12Between(x, 0, Num(2))

\* series.get(year, 0)
Get(series, year) == IF year \in DOMAIN series THEN series[year] ELSE 0

InitialExchangeFeeRate == 5000      \* 0.005
MonthlyExchangeFeeRate == 5000      \* 0.005
ManagementFeeRate == 300            \* 0.0003
FinalExchangeFeeRate == 2000        \* 0.002
TaxRate == 250000                   \* 0.25

\* the months with the contribution added before the growth
RECURSIVE ContributionBeforeGrowth(_, _, _, _)
ContributionBeforeGrowth(current_value, monthly_return, monthly_investment, months) ==
    IF months = 0 THEN current_value
    ELSE ContributionBeforeGrowth(
             Mul(current_value + monthly_investment, Num(1) + monthly_return),
             monthly_return, monthly_investment, months - 1)

\* for month in range(12): current_value *= 1 + monthly_return;
\*                         current_value += monthly_investment
RECURSIVE MonthlyGrowth(_, _, _, _)
MonthlyGrowth(current_value, monthly_return, monthly_investment, months) ==
    IF months = 0 THEN current_value
    ELSE MonthlyGrowth(Mul(current_value, Num(1) + monthly_return) + monthly_investment,
                       monthly_return, monthly_investment, months - 1)

\* contributions that go on after the term
contributes_always(years_passed, term_years) == TRUE

\* contributions that stop one year early
contributes_before_last_year(years_passed, term_years) == years_passed < term_years

\* if years_passed <= term_years: the year receives the monthly contributions
contributes(years_passed, term_years) == years_passed <= term_years

\* one pass of the loop "for i, year in enumerate(years)" for i > 0: the
\* record of the year, given the record of the year before
PortfolioYear(prev, year, start_year, M, term_years, stock_series, bond_series, sp500_allocation) ==
    LET stock_return == DivInt(Get(stock_series, year), 100)
        bond_return == DivInt(Get(bond_series, year), 100)
        weighted_return == Mul(DivInt(Num(sp500_allocation), 100), stock_return)
                           + Mul(DivInt(Num(100 - sp500_allocation), 100), bond_return)
        monthly_return == Root12(Num(1) + weighted_return) - Num(1)
        years_passed == year - start_year
        contributing == contributes(years_passed, term_years)
        monthly_exchange_fee == Mul(M, MonthlyExchangeFeeRate)
        monthly_investment == M - monthly_exchange_fee
        monthly_exchange_fees == IF contributing THEN monthly_exchange_fee * 12 ELSE 0
        grown == IF contributing
                 THEN MonthlyGrowth(prev.Portfolio_Value, monthly_return,
                                    monthly_investment, 12)
                 ELSE Mul(prev.Portfolio_Value, Num(1) + weighted_return)
        annual_management_fee == Mul(grown, ManagementFeeRate)
    IN  [Year |-> year,
         Portfolio_Value |-> grown - annual_management_fee,
         Cumulative_Investment |->
             IF contributing THEN prev.Cumulative_Investment + M * 12
             ELSE prev.Cumulative_Investment,
         Annual_Cost |-> annual_management_fee,
         Initial_Exchange_Fee |-> 0,
         Monthly_Exchange_Fees |-> monthly_exchange_fees,
         Cumulative_Monthly_Exchange_Fees |->
             prev.Cumulative_Monthly_Exchange_Fees + monthly_exchange_fees,
         Annual_Management_Fees |-> annual_management_fee,
         Cumulative_Management_Fees |->
             prev.Cumulative_Management_Fees + annual_management_fee]

\* a tax charged on profits and credited on losses
tax_on_any_profit(Profit_Pretax) == Mul(Profit_Pretax, TaxRate)

\* np.where(Profit_Pretax > 0, Profit_Pretax * 0.25, 0)
Tax(Profit_Pretax) == IF Profit_Pretax > 0 THEN Mul(Profit_Pretax, TaxRate) ELSE 0

\* the columns computed after the loop, and the inflation adjustment
PortfolioTotals(row, inflation_factors) ==
    LET Final_Exchange_Fee == Mul(row.Portfolio_Value, FinalExchangeFeeRate)
        Portfolio_Value_After_Fees == row.Portfolio_Value - Final_Exchange_Fee
        Profit_Pretax == Portfolio_Value_After_Fees - row.Cumulative_Investment
        Net_Profit_Nominal == Profit_Pretax - Tax(Profit_Pretax)
        Inflation_Factor == inflation_factors[row.Year]
    IN  row @@
        [Final_Exchange_Fee |-> Final_Exchange_Fee,
         Portfolio_Value_After_Fees |-> Portfolio_Value_After_Fees,
         Total_Fees |-> row.Initial_Exchange_Fee
                        + row.Cumulative_Monthly_Exchange_Fees
                        + row.Cumulative_Management_Fees
                        + Final_Exchange_Fee,
         Profit_Pretax |-> Profit_Pretax,
         Tax |-> Tax(Profit_Pretax),
         Net_Profit_Nominal |-> Net_Profit_Nominal,
         Inflation_Factor |-> Inflation_Factor,
         Investment_Return |-> Mul(Net_Profit_Nominal, Inflation_Factor)]

\* the price table df is not empty
calculate_portfolio_performance(df, start_year, initial_price, interest_rate, term_years, stock_series, bond_series, sp500_allocation, inflation_factors) ==
    LET down_payment == Mul(initial_price, DownPaymentShare)
        mortgage_amount == Mul(initial_price, MortgageShare)
        M == calculate_mortgage_payment(mortgage_amount, interest_rate, term_years)
        years == AscendingYears(YearsOf(df))
        initial_exchange_fee == Mul(down_payment, InitialExchangeFeeRate)
        initial_investment == down_payment - initial_exchange_fee
        first_fee == Mul(initial_investment, ManagementFeeRate)
        first_row == [Year |-> years[1],
                      Portfolio_Value |-> initial_investment,
                      Cumulative_Investment |-> down_payment,
                      Annual_Cost |-> first_fee,
                      Initial_Exchange_Fee |-> initial_exchange_fee,
                      Monthly_Exchange_Fees |-> 0,
                      Cumulative_Monthly_Exchange_Fees |-> 0,
                      Annual_Management_Fees |-> first_fee,
                      Cumulative_Management_Fees |-> first_fee]
        RECURSIVE LoopFrom(_, _)
        LoopFrom(i, rows) ==
            IF i > Len(years) THEN rows
            ELSE LoopFrom(i + 1,
                     Append(rows, PortfolioYear(rows[i - 1], years[i], start_year, M,
                                      term_years, stock_series, bond_series,
                                      sp500_allocation)))
        Loop == LoopFrom(2, <<first_row>>)
        missing_inflation == missing_inflation_years(years, inflation_factors)
    IN  IF missing_inflation # <<>>
        THEN Raised("Missing inflation data for market portfolio in years",
                    missing_inflation)
        ELSE Returned([i \in 1..Len(years) |-> PortfolioTotals(Loop[i], inflation_factors)])

-----------------------------------------------------------------------------
(* Calls of the simulators on their own.                                   *)

\* S&P 500 total return of a year in percent: +20, -10, +10, +20, ...
StockOf == [y \in Years |->
               LET d == (y - FirstYear) % 3
               IN  IF d = 0 THEN Num(20) ELSE IF d = 1 THEN Num(-10) ELSE Num(10)]

\* bond return of a year in percent: +4, +1, +4, ...
BondOf == [y \in Years |-> IF (y - FirstYear) % 2 = 0 THEN Num(4) ELSE Num(1)]

\* load_stock_returns, load_bond_returns: the series of the years S
StockSeries(S) == [y \in S |-> StockOf[y]]
BondSeries(S) == [y \in S |-> BondOf[y]]

\* the slider of interactive_plot.py goes from 0 to 100 in steps of 10
Allocations == {0, 50, 100}

\* the bond series that go with the stock series of the years T: complete,
\* of the same years, or empty
BondYears(T) == {Years, T, {}}

\* the years of the stock series and of the bond series of a call
MarketYears ==
    UNION {{<<T, B>> : B \in BondYears(T)} :
              T \in {Years \ X : X \in {{}, Years} \cup {{y} : y \in Years}}}

\* calls with data of any shape and one loan, and calls with complete data
\* and any loan and allocation
PortfolioInputs ==
    {[df |-> PriceTable(S, RisingPrices), start_year |-> FirstYear,
      initial_price |-> InitialPrice(PriceTable(S, RisingPrices)),
      interest_rate |-> 60000, term_years |-> 1,
      stock_series |-> StockSeries(m[1]), bond_series |-> BondSeries(m[2]),
      sp500_allocation |-> 80, inflation_factors |-> f] :
        S \in YearSets, m \in MarketYears, f \in InflationMaps}
    \cup
    {[df |-> PriceTable(Years, RisingPrices), start_year |-> y,
      initial_price |-> InitialPrice(PriceTable(Years, RisingPrices)),
      interest_rate |-> r, term_years |-> n,
      stock_series |-> StockSeries(Years), bond_series |-> BondSeries(Years),
      sp500_allocation |-> a,
      inflation_factors |-> calculate_inflation_factors(CpiTable(Years), y)] :
        y \in Years, r \in Rates, n \in Terms, a \in Allocations}

CallPortfolioPerformance ==
    /\ fn = "none"
    /\ \E in \in PortfolioInputs :
        /\ fn' = "calculate_portfolio_performance"
        /\ args' = in
        /\ ret' = calculate_portfolio_performance(in.df, in.start_year,
                      in.initial_price, in.interest_rate, in.term_years,
                      in.stock_series, in.bond_series, in.sp500_allocation,
                      in.inflation_factors)
        /\ df_object' = [columns |-> PriceColumns, is_result |-> FALSE]
        /\ UNCHANGED preload

InitSimulators == InitCall /\ InitNoPreload
NextSimulators == CallInvestmentMetrics \/ CallPortfolioPerformance \/ Return
SpecSimulators == InitSimulators /\ [][NextSimulators]_vars

-----------------------------------------------------------------------------
(* plot.py: the interest-rate lookup.  The interest-rate row maps the      *)
(* column names of mortgage_interest.csv to rates in percent.              *)

Infinity == 2147483647      \* float('inf'): above every loan term

\* term_columns, in the order of the dictionary
term_columns ==
    <<[min_years |-> 25, max_years |-> Infinity, column |-> "More than 25"],
      [min_years |-> 20, max_years |-> 25, column |-> "From 20 to 25"],
      [min_years |-> 15, max_years |-> 20, column |-> "From 15 to 20"],
      [min_years |-> 10, max_years |-> 15, column |-> "From 10 to 15"],
      [min_years |-> 5, max_years |-> 10, column |-> "From 5 to 10"],
      [min_years |-> 1, max_years |-> 5, column |-> "From 1 to 5"]>>

get_interest_rate(interest_row, loan_term) ==
    LET matching == SelectIdx(term_columns,
                        LAMBDA i : /\ term_columns[i].min_years < loan_term
                                   /\ loan_term <= term_columns[i].max_years)
    IN  IF matching # <<>>
        THEN DivInt(interest_row[term_columns[matching[1]].column], 100)
        ELSE DivInt(interest_row["Average"], 100)

-----------------------------------------------------------------------------
(* interactive_plot.py: the data loaded at start-up and per request.       *)

\* a region is known by the years of its price rows and of its rent rows:
\* the rent rows are complete, lack one year or are absent
Regions ==
    {[apt |-> S, rent |-> R] :
        S \in YearSets, R \in {Years, Years \ {FirstYear + 1}, {}}}

\* the room categories, each with its price history
Rooms == {"all", "3"}

PricesOf(rooms) ==
    IF rooms = "all" THEN RisingPrices
    ELSE BoomPrices

\* load_apartment_data(region, rooms), load_rent_data(region, rooms)
load_apartment_data(region, rooms) == PriceTable(region.apt, PricesOf(rooms))
load_rent_data(region, rooms) == RentTable(region.rent)

\* load_interest_rates(): the first row of the file
InterestRow ==
    [c \in {"More than 25", "From 20 to 25", "From 15 to 20", "From 10 to 15",
            "From 5 to 10", "From 1 to 5", "Average"} |->
        IF c = "From 1 to 5" THEN Num(6)
        ELSE IF c = "Average" THEN Num(3)
        ELSE Num(5)]

SetMin(S) == CHOOSE x \in S : \A y \in S : x <= y
SetMax(S) == CHOOSE x \in S : \A y \in S : x >= y

\* the years offered by the start-year dropdown
available_years ==
    LET common_years == Years \cap YearsOf(df_cpi) \cap DOMAIN stock_returns
                        \cap DOMAIN bond_returns
    IN  IF common_years # {} THEN common_years ELSE YearsOf(df_cpi)

\* a table in a file that lists the newest year first
NewestFirst(rows) == [i \in 1..Len(rows) |-> rows[Len(rows) + 1 - i]]

\* the module-level preload: the CPI table and the stock series may lack a
\* year at either end, and the CPI table is in the order of its file
InitPreload ==
    /\ df_cpi \in {CpiTable(Years),
                   NewestFirst(CpiTable(Years \ {FirstYear + NumYears - 1}))}
    /\ interest_rates = InterestRow
    /\ stock_returns \in {StockSeries(Years), StockSeries(Years \ {FirstYear + 1})}
    /\ bond_returns = BondSeries(Years)

-----------------------------------------------------------------------------
(* interactive_plot.py: the callback update_graph.  Its response is the    *)
(* scenario it resolved the request to and what it hands to the page: a    *)
(* message (create_rtl_message) or the graph with the results panel.       *)

\* create_rtl_message(title, color, additional_text)
Message(scenario, title, color, additional_text, raised, apartment_runs, portfolio_runs) ==
    [scenario |-> scenario, shows |-> "message", title |-> title, color |-> color,
     additional_text |-> additional_text, raised |-> raised,
     apartment_runs |-> apartment_runs, portfolio_runs |-> portfolio_runs]

\* the row of the year in a table of records; the year is in the table
RowOf(rows, year) == rows[CHOOSE i \in 1..Len(rows) : rows[i].Year = year]

\* the return of the last year alone
final_return(rows) == rows[Len(rows)].Investment_Return

\* df['Investment_Return'].sum()
area(rows) == SumSeq([i \in 1..Len(rows) |-> rows[i].Investment_Return])

\* only the upper end checked
above_range(start_year, earliest_year, latest_year) == start_year > latest_year

\* only the lower end checked
below_range(start_year, earliest_year, latest_year) == start_year < earliest_year

\* start_year > latest_year or start_year < earliest_year
out_of_range(start_year, earliest_year, latest_year) ==
    start_year > latest_year \/ start_year < earliest_year

KeyError(year) ==
    [status |-> "raised", type |-> "KeyError", message |-> "", years |-> <<year>>]

update_graph(apartment_region, apartment_rooms, loan_term_years, start_year, sp500_allocation) ==
    LET df_loaded == load_apartment_data(apartment_region, apartment_rooms)
        rent_df == load_rent_data(apartment_region, apartment_rooms)
        apartment_years == YearsOf(df_loaded)
        rent_years == YearsOf(rent_df)
        available_years_for_selection == apartment_years \cap rent_years
        earliest_year == SetMin(available_years_for_selection)
        latest_year == SetMax(available_years_for_selection)
        kept == SelectIdx(df_loaded, LAMBDA i : df_loaded[i].Year >= start_year)
        df_preprocessed == [j \in 1..Len(kept) |-> df_loaded[kept[j]]]
        inflation_factors == calculate_inflation_factors(df_cpi, start_year)
        interest_rate == get_interest_rate(interest_rates, loan_term_years)
        initial_price == InitialPrice(df_preprocessed)
        df_apartment == calculate_investment_metrics(df_preprocessed, start_year,
                            initial_price, interest_rate, loan_term_years, rent_df,
                            inflation_factors)
        df_market == calculate_portfolio_performance(df_preprocessed, start_year,
                         initial_price, interest_rate, loan_term_years,
                         stock_returns, bond_returns, sp500_allocation,
                         inflation_factors)
        apt == df_apartment.rows
        market == df_market.rows
        last_year == SetMax(YearsOf(apt))
        apt_area == area(apt)
        market_area == area(market)
        first_apt_row == RowOf(apt, start_year)
    IN  IF available_years_for_selection = {}
        THEN Message("NO_OVERLAP", "no complete data for the selection", "red",
                     <<IF apartment_years # {}
                       THEN <<"price years", SetMin(apartment_years), SetMax(apartment_years)>>
                       ELSE <<"no price data">>,
                       IF rent_years # {}
                       THEN <<"rent years", SetMin(rent_years), SetMax(rent_years)>>
                       ELSE <<"no rent data">>>>,
                     NoData, 0, 0)
        ELSE IF out_of_range(start_year, earliest_year, latest_year)
        THEN Message("START_YEAR_OUT_OF_RANGE", "available only between", "orange",
                     <<earliest_year, latest_year>>, NoData, 0, 0)
        ELSE IF Len(df_preprocessed) = 0
        THEN Message("EMPTY_AFTER_FILTER", "no data for the chosen years", "red",
                     <<>>, NoData, 0, 0)
        ELSE IF df_apartment.status = "raised"
        THEN Message("OK", "error showing the data", "red", <<>>, df_apartment, 1, 0)
        ELSE IF df_market.status = "raised"
        THEN Message("OK", "error showing the data", "red", <<>>, df_market, 1, 1)
        ELSE IF start_year \notin YearsOf(apt)
        THEN Message("OK", "error showing the data", "red", <<>>,
                     KeyError(start_year), 1, 1)
        ELSE [scenario |-> "OK", shows |-> "graph",
              df_apartment |-> apt,
              df_market |-> market,
              apartment_runs |-> 1, portfolio_runs |-> 1,
              initial_price |-> initial_price,
              interest_rate |-> interest_rate,
              real_apt_price |-> Mul(first_apt_row.Price, first_apt_row.Inflation_Factor),
              apt_final_return |-> RowOf(apt, last_year).Investment_Return,
              market_final_return |-> RowOf(market, last_year).Investment_Return,
              apt_area |-> apt_area,
              market_area |-> market_area,
              winner |-> IF apt_area > market_area THEN "apartment" ELSE "portfolio"]

\* df.sort_values('Year', inplace=True): the caller's table is sorted too
table_sorted_in_place(rows) == SortByYear(rows)

\* the table passed to calculate_inflation_factors, after the call:
\* df_cpi = df_cpi.sort_values('Year') binds the local name to a sorted copy
table_after_sort_values(rows) == rows

\* one request of the page
UpdateGraph ==
    /\ fn = "none"
    /\ \E apartment_region \in Regions, apartment_rooms \in Rooms,
       loan_term_years \in Terms, start_year \in available_years,
       sp500_allocation \in Allocations :
        /\ fn' = "update_graph"
        /\ args' = [apartment_region |-> apartment_region,
                    apartment_rooms |-> apartment_rooms,
                    loan_term_years |-> loan_term_years,
                    start_year |-> start_year,
                    sp500_allocation |-> sp500_allocation]
        /\ ret' = update_graph(apartment_region, apartment_rooms, loan_term_years,
                               start_year, sp500_allocation)
        /\ df_cpi' = IF ret'.scenario = "OK"
                     THEN table_after_sort_values(df_cpi)
                     ELSE df_cpi
        /\ UNCHANGED <<interest_rates, stock_returns, bond_returns>>
        /\ df_object' = NoData

Init == InitCall /\ InitPreload
Next == UpdateGraph \/ Return
Spec == Init /\ [][Next]_vars

-----------------------------------------------------------------------------
(* Properties of the simulators (SpecSimulators).                          *)

Metrics == fn = "calculate_investment_metrics"
Portfolio == fn = "calculate_portfolio_performance"

\* the simulated years of a call: the years of its price table
SimulatedYears == YearsOf(args.df)

\* the years whose rent a call of the apartment simulator needs: every
\* simulated year and, for each simulated year Y, the years from the
\* purchase year up to Y - 1
RequiredRentYears ==
    SimulatedYears \cup
    UNION {args.start_year..(y - 1) : y \in SimulatedYears}

MissingRentYears == RequiredRentYears \ YearsOf(args.rent_df)

MissingMarketYears ==
    {y \in SimulatedYears : y \notin DOMAIN args.stock_series
                            \/ y \notin DOMAIN args.bond_series}

\* the simulated years without inflation factor, in the order of the table
MissingInflation ==
    LET years == [i \in 1..Len(args.df) |-> args.df[i].Year]
        missing == SelectIdx(years, LAMBDA i : years[i] \notin DOMAIN args.inflation_factors)
    IN  [j \in 1..Len(missing) |-> years[missing[j]]]

SeqRange(q) == {q[i] : i \in 1..Len(q)}

\* C1: a call of calculate_portfolio_performance with a simulated year absent
\* from the stock or the bond series raises an error and returns no records
C1_MissingMarketYearRaises ==
    (Portfolio /\ MissingMarketYears # {}) => ret.status = "raised"

\* C2: a call of calculate_investment_metrics with a required year without
\* rent data fails, also when the rent series is empty
C2_MissingRentYearRaises ==
    (Metrics /\ MissingRentYears # {}) => ret.status = "raised"

\* C6: when several required years lack rent data, the error raised names
\* every one of them
RentErrors == {"No rent data found for year", "Missing rent data for years"}

C6_RentErrorNamesEveryYear ==
    (/\ Metrics
     /\ Cardinality(MissingRentYears) >= 2
     /\ ret.status = "raised"
     /\ ret.message \in RentErrors)
        => MissingRentYears \subseteq SeqRange(ret.years)

\* C7 as stated: with a simulated year without inflation factor, each
\* simulator raises an error that lists every such year
C7_InflationErrorAlways ==
    ((Metrics \/ Portfolio) /\ MissingInflation # <<>>)
        => (ret.status = "raised" /\ ret.years = MissingInflation)

\* C7 amended: with a simulated year without inflation factor, neither
\* simulator returns records; the portfolio simulator raises an error that
\* lists every such year, and so does the apartment simulator unless it
\* raises a rent error first
C7_InflationErrorUnlessRentError ==
    ((Metrics \/ Portfolio) /\ MissingInflation # <<>>)
        => /\ ret.status = "raised"
           /\ \/ ret.years = MissingInflation
              \/ Metrics /\ ret.message \in RentErrors

C7_Witness ==
    /\ Metrics
    /\ Len(MissingInflation) >= 2
    /\ ret.status = "raised"
    /\ ret.message = "Missing inflation data for years"
    /\ ret.years = MissingInflation

\* C8: in every apartment record the cumulative payments are
\* downPayment + min(elapsed, termYears) * annualPayment, hence at most
\* downPayment + termYears * annualPayment
C8_CumulativePaymentsCapped ==
    (Metrics /\ ret.status = "returned") =>
        LET down_payment == Mul(args.P, DownPaymentShare)
            M == calculate_mortgage_payment(Mul(args.P, MortgageShare),
                     args.interest_rate, args.term_years)
            annual == M * 12
        IN  \A i \in 1..Len(ret.rows) :
                LET elapsed == ret.rows[i].Year - args.start_year
                IN  /\ ret.rows[i].Cumulative_Payments
                         = down_payment + Min(elapsed, args.term_years) * annual
                    /\ ret.rows[i].Cumulative_Payments
                         <= down_payment + args.term_years * annual

C8_Witness ==
    /\ Metrics
    /\ ret.status = "returned"
    /\ \E i \in 1..Len(ret.rows) :
           /\ ret.rows[i].Year - args.start_year > args.term_years + 1
           /\ ret.rows[i].Cumulative_Payments > Mul(args.P, DownPaymentShare)

\* C9: between two consecutive portfolio records that both lie past the
\* term the cumulative principal does not change, and it grows only into a
\* year with elapsed <= termYears
C9_PrincipalStopsAfterTerm ==
    (Portfolio /\ ret.status = "returned") =>
        \A i \in 1..(Len(ret.rows) - 1) :
            LET elapsed == ret.rows[i].Year - args.start_year
                elapsed_next == ret.rows[i + 1].Year - args.start_year
                grows == ret.rows[i + 1].Cumulative_Investment
                             # ret.rows[i].Cumulative_Investment
            IN  /\ (elapsed > args.term_years /\ elapsed_next > args.term_years)
                       => ~grows
                /\ grows => elapsed_next <= args.term_years

C9_Witness ==
    /\ Portfolio
    /\ ret.status = "returned"
    /\ \E i \in 2..(Len(ret.rows) - 1) :
           /\ ret.rows[i].Year - args.start_year > args.term_years
           /\ ret.rows[i + 1].Cumulative_Investment = ret.rows[i].Cumulative_Investment
           /\ ret.rows[i].Cumulative_Investment > ret.rows[1].Cumulative_Investment

-----------------------------------------------------------------------------
(* Properties of the mortgage model (SpecMortgage).                        *)

\* C3: remaining_balance is the principal for elapsed <= 0 and 0 for
\* elapsed >= termYears, elapsed = termYears included when the payment is
\* that of calculate_mortgage_payment
C3_BalanceAtTheEnds ==
    fn = "remaining_balance" =>
        /\ args.k <= 0 => ret = args.P
        /\ args.k > args.n => ret = 0
        /\ (args.k = args.n /\ args.own) => ret = 0

-----------------------------------------------------------------------------
(* Properties of the inflation normalizer (SpecInflation).                 *)

\* C10: the factor of the latest year of the CPI table is exactly 1
C10_LatestFactorIsOne ==
    fn = "calculate_inflation_factors" =>
        ret[SetMax(YearsOf(args.df_cpi))] = Num(1)

C10_Witness ==
    /\ fn = "calculate_inflation_factors"
    /\ Len(args.df_cpi) >= 2
    /\ args.df_cpi[Len(args.df_cpi)].Year # SetMax(YearsOf(args.df_cpi))
    /\ ret[SetMax(YearsOf(args.df_cpi))] = Num(1)
    /\ ret[args.df_cpi[Len(args.df_cpi)].Year] # Num(1)

-----------------------------------------------------------------------------
(* Properties of the callback update_graph (Spec).                         *)

Request == fn = "update_graph"

ReturnsOf(rows) == [i \in 1..Len(rows) |-> rows[i].Investment_Return]

\* C4: the apartment is the winner exactly when the sum of its yearly real
\* returns is strictly greater than the sum of the portfolio's, and the
\* portfolio is the winner otherwise, whatever the final-year values
C4_WinnerBySum ==
    (Request /\ ret.shows = "graph") =>
        LET apartment_sum == SumSeq(ReturnsOf(ret.df_apartment))
            portfolio_sum == SumSeq(ReturnsOf(ret.df_market))
        IN  /\ ret.winner = "apartment" <=> apartment_sum > portfolio_sum
            /\ ret.winner = "portfolio" <=> apartment_sum <= portfolio_sum

\* the apartment is ahead in every year but the last, behind in the last
\* year, and wins
C4_Witness ==
    /\ Request
    /\ ret.shows = "graph"
    /\ ret.winner = "apartment"
    /\ Len(ret.df_apartment) >= 3
    /\ \A i \in 1..(Len(ret.df_apartment) - 1) :
           ret.df_apartment[i].Investment_Return > ret.df_market[i].Investment_Return
    /\ ret.df_apartment[Len(ret.df_apartment)].Investment_Return
           < ret.df_market[Len(ret.df_market)].Investment_Return

\* the scenario expected for a request, from the years of the selection
ExpectedScenario ==
    LET price_years == args.apartment_region.apt
        common == price_years \cap args.apartment_region.rent
    IN  IF common = {} THEN "NO_OVERLAP"
        ELSE IF args.start_year < SetMin(common) \/ args.start_year > SetMax(common)
        THEN "START_YEAR_OUT_OF_RANGE"
        ELSE IF {y \in price_years : y >= args.start_year} = {}
        THEN "EMPTY_AFTER_FILTER"
        ELSE "OK"

\* C5: every request resolves to one scenario, decided in the order
\* NO_OVERLAP, START_YEAR_OUT_OF_RANGE, EMPTY_AFTER_FILTER, OK; the
\* out-of-range message carries the first and last common year
C5_ScenarioPriority ==
    Request =>
        /\ ret.scenario = ExpectedScenario
        /\ ret.scenario = "START_YEAR_OUT_OF_RANGE" =>
               LET common == args.apartment_region.apt \cap args.apartment_region.rent
               IN  ret.additional_text = <<SetMin(common), SetMax(common)>>

\* a start year that has a price row but lies below the common years
C5_Witness ==
    /\ Request
    /\ ret.scenario = "START_YEAR_OUT_OF_RANGE"
    /\ args.start_year \in args.apartment_region.apt
    /\ args.start_year < ret.additional_text[1]

-----------------------------------------------------------------------------
\* C11: in the records a call of calculate_investment_metrics returns, the
\* cumulative rent of the purchase year is 0, and a later year never has a
\* smaller cumulative rent than an earlier one
C11_CumulativeRentFromZero ==
    (Metrics /\ ret.status = "returned") =>
        \A i, j \in 1..Len(ret.rows) :
            /\ ret.rows[i].Year = args.start_year
                   => ret.rows[i].Cumulative_Rent = 0
            /\ ret.rows[i].Year <= ret.rows[j].Year
                   => ret.rows[i].Cumulative_Rent <= ret.rows[j].Cumulative_Rent

C11_Witness ==
    /\ Metrics
    /\ ret.status = "returned"
    /\ args.rent_df # <<>>
    /\ \E i, j, l \in 1..Len(ret.rows) :
           /\ ret.rows[i].Year = args.start_year
           /\ ret.rows[i].Yearly_Rent > 0
           /\ ret.rows[i].Cumulative_Rent = 0
           /\ ret.rows[j].Cumulative_Rent > 0
           /\ ret.rows[l].Cumulative_Rent > ret.rows[j].Cumulative_Rent

-----------------------------------------------------------------------------
\* C12: at annual rate 0 the monthly payment is principal / (termYears * 12),
\* and the balance under that payment is principal - k * 12 * M for every
\* 0 < k <= termYears, which is 0 at k = termYears
C12_ZeroRateLinear ==
    /\ (fn = "calculate_mortgage_payment" /\ args.interest_rate = 0)
           => ret = DivInt(args.loan_amount, args.term_years * 12)
    /\ (/\ fn = "remaining_balance"
        /\ args.r_annual = 0
        /\ args.own
        /\ 0 < args.k
        /\ args.k <= args.n)
           => LET M == calculate_mortgage_payment(args.P, 0, args.n)
              IN  /\ ret = args.P - args.k * 12 * M
                  /\ args.k = args.n => ret = 0

-----------------------------------------------------------------------------
\* C13: with a rate above 0 and an annual payment that covers the yearly
\* interest on the principal, the balance after more elapsed years is never
\* larger than the balance after fewer, over elapsed <= 0, the term and the
\* years past the term
C13_BalanceNonIncreasing ==
    (/\ fn = "remaining_balance"
     /\ args.r_annual > 0
     /\ args.A >= Mul(args.P, args.r_annual))
        => \A k2 \in args.k..(MaxTerm + 3) :
               remaining_balance(k2, args.P, args.r_annual, args.A, args.n) <= ret

-----------------------------------------------------------------------------
(* Calls of get_interest_rate on its own.                                  *)

MaxLoanTerm == 31     \* loan terms passed to get_interest_rate are 0..MaxLoanTerm

RateColumns ==
    <<"More than 25", "From 20 to 25", "From 15 to 20", "From 10 to 15",
      "From 5 to 10", "From 1 to 5", "Average">>

\* rows of mortgage_interest.csv: every column holds another rate (percent)
InterestRows ==
    {[c \in {RateColumns[i] : i \in 1..Len(RateColumns)} |->
         Num(s + CHOOSE i \in 1..Len(RateColumns) : RateColumns[i] = c)] :
        s \in 1..4}

CallInterestRate ==
    /\ fn = "none"
    /\ \E interest_row \in InterestRows, loan_term \in 0..MaxLoanTerm :
        /\ fn' = "get_interest_rate"
        /\ args' = [interest_row |-> interest_row, loan_term |-> loan_term]
        /\ ret' = get_interest_rate(interest_row, loan_term)
        /\ UNCHANGED preload
        /\ df_object' = NoData

InitInterest == InitCall /\ InitNoPreload
NextInterest == CallInterestRate \/ Return
SpecInterest == InitInterest /\ [][NextInterest]_vars

\* the column of the band (1,5], (5,10], (10,15], (15,20], (20,25], (25,inf)
\* that holds a term above 1
BandColumn(loan_term) ==
    IF loan_term > 25 THEN "More than 25"
    ELSE IF loan_term > 20 THEN "From 20 to 25"
    ELSE IF loan_term > 15 THEN "From 15 to 20"
    ELSE IF loan_term > 10 THEN "From 10 to 15"
    ELSE IF loan_term > 5 THEN "From 5 to 10"
    ELSE "From 1 to 5"

\* C14: get_interest_rate returns the rate of the band that holds the term,
\* the bands being (0,1], (1,5], (5,10], (10,15], (15,20], (20,25], (25,inf)
\* with a rate column each, and returns the overall average only for a term
\* in no band
C14_BandOfTheTerm ==
    fn = "get_interest_rate" =>
        LET average == DivInt(args.interest_row["Average"], 100)
        IN  /\ args.loan_term > 1
                => ret = DivInt(args.interest_row[BandColumn(args.loan_term)], 100)
            /\ (0 < args.loan_term /\ args.loan_term <= 1) => ret # average
            /\ args.loan_term <= 0 => ret = average

-----------------------------------------------------------------------------
\* the errors calculate_investment_metrics raises
ApartmentErrors == RentErrors \cup {"Missing inflation data for years"}

\* the response reports an error raised by the apartment simulation
ApartmentFailed ==
    /\ ret.shows = "message"
    /\ ret.raised # NoData
    /\ ret.raised.type = "ValueError"
    /\ ret.raised.message \in ApartmentErrors

\* C15 as stated: a request of scenario OK runs each simulation exactly
\* once, a request of any other scenario runs neither
C15_BothSimulationsOnce ==
    Request =>
        IF ExpectedScenario = "OK"
        THEN ret.apartment_runs = 1 /\ ret.portfolio_runs = 1
        ELSE ret.apartment_runs = 0 /\ ret.portfolio_runs = 0

\* C15 amended: a request of scenario OK runs the apartment simulation
\* exactly once and then the portfolio simulation exactly once, unless the
\* apartment simulation raised, and then the portfolio simulation does not
\* run; a request of any other scenario runs neither
C15_SimulationsPerRequest ==
    Request =>
        IF ExpectedScenario = "OK"
        THEN /\ ret.apartment_runs = 1
             /\ ret.portfolio_runs = IF ApartmentFailed THEN 0 ELSE 1
        ELSE ret.apartment_runs = 0 /\ ret.portfolio_runs = 0

C15_Witness ==
    /\ Request
    /\ ExpectedScenario = "OK"
    /\ ApartmentFailed
    /\ ret.apartment_runs = 1
    /\ ret.portfolio_runs = 0

-----------------------------------------------------------------------------
\* a simulation of the request raised a missing-data error
SimulationFailed ==
    /\ Request
    /\ "raised" \in DOMAIN ret
    /\ ret.raised # NoData
    /\ ret.raised.type = "ValueError"

\* C16: a request whose simulation fails for missing reference data is not
\* answered with a message; only a selection without common years and a
\* start year out of range are
C16_DataErrorsPropagate ==
    /\ SimulationFailed => ret.shows # "message"
    /\ (Request /\ ret.shows = "message")
           => ret.scenario \in {"NO_OVERLAP", "START_YEAR_OUT_OF_RANGE"}

-----------------------------------------------------------------------------
\* C17: the apartment records and the portfolio records of a request have
\* the same years, and these are the years from the start year on that the
\* price, rent, CPI, stock-return and bond-return data all have
C17_CommonYears ==
    (Request /\ ret.shows = "graph") =>
        /\ YearsOf(ret.df_apartment) = YearsOf(ret.df_market)
        /\ YearsOf(ret.df_apartment) =
               {y \in args.apartment_region.apt \cap args.apartment_region.rent
                      \cap YearsOf(df_cpi) \cap DOMAIN stock_returns
                      \cap DOMAIN bond_returns : y >= args.start_year}

-----------------------------------------------------------------------------
\* C18: after a simulator returns, the price table passed to it has the
\* columns it had before the call, and the table returned is not that object
C18_InputsUntouched ==
    ((Metrics \/ Portfolio) /\ ret.status = "returned") =>
        /\ df_object.columns = DOMAIN args.df[1]
        /\ ~df_object.is_result

-----------------------------------------------------------------------------
\* C19: no step of the page changes the reference data loaded at start-up
\* (CPI table, interest-rate row, stock series, bond series)
C19_PreloadNeverModified == [][preload' = preload]_vars

\* a request has run the inflation normalizer on a CPI table that is not in
\* year order, and the table is as it was loaded
C19_Witness ==
    /\ Request
    /\ ret.shows = "graph"
    /\ df_cpi # SortByYear(df_cpi)
    /\ df_cpi = NewestFirst(CpiTable(Years \ {FirstYear + NumYears - 1}))

-----------------------------------------------------------------------------
-----------------------------------------------------------------------------
\* the index level of a year of a CPI table: the level of the year before it
\* in the table (the base, for the first year) times 1 + pct / 100
RECURSIVE IndexLevel(_, _)
IndexLevel(table, year) ==
    LET row == CHOOSE r \in {table[i] : i \in 1..Len(table)} : r.Year = year
        earlier == {y \in YearsOf(table) : y < year}
        before == IF earlier = {} THEN Num(base_cpi)
                  ELSE IndexLevel(table, SetMax(earlier))
    IN  Mul(before, Num(1) + DivInt(row.Total, 100))

\* C21: calculate_inflation_factors returns a factor for every year of the
\* table, the index level of the latest year divided by the index level of
\* the year, the levels being the running product over the years in
\* ascending order, whatever the order of the rows
C21_FactorsFromIndexLevels ==
    fn = "calculate_inflation_factors" =>
        LET latest == SetMax(YearsOf(args.df_cpi))
        IN  /\ DOMAIN ret = YearsOf(args.df_cpi)
            /\ \A year \in YearsOf(args.df_cpi) :
                   ret[year] = Div(IndexLevel(args.df_cpi, latest),
                                   IndexLevel(args.df_cpi, year))
            /\ ret = calculate_inflation_factors(NewestFirst(args.df_cpi),
                                                 args.start_year)

\* a table of three rows out of year order, with two years that differ from
\* the latest level
C21_Witness ==
    /\ fn = "calculate_inflation_factors"
    /\ Len(args.df_cpi) = 3
    /\ args.df_cpi # SortByYear(args.df_cpi)
    /\ args.df_cpi # NewestFirst(SortByYear(args.df_cpi))
    /\ Cardinality({year \in DOMAIN ret : ret[year] # Num(1)}) = 2

-----------------------------------------------------------------------------
\* the records of the years lo..hi-1, in the order of the table
RowsBetween(rows, lo, hi) ==
    LET inside == SelectIdx(rows, LAMBDA i : rows[i].Year >= lo /\ rows[i].Year < hi)
    IN  [j \in 1..Len(inside) |-> rows[inside[j]]]

\* C22: the cumulative rent of a target year Y is the sum of the net yearly
\* rent, gross yearly rent * (1 - 0.15), of the years purchaseYear..Y-1, each
\* of them counted once
C22_CumulativeRentInterval ==
    (Metrics /\ ret.status = "returned") =>
        \A i \in 1..Len(ret.rows) :
            LET Y == ret.rows[i].Year
                counted == RowsBetween(ret.rows, args.start_year, Y)
            IN  /\ ret.rows[i].Yearly_Rent
                       = Mul(ret.rows[i].Yearly_Rent_Gross, Scale - MaintenanceShare)
                /\ YearsOf(counted) = args.start_year..(Y - 1)
                /\ Len(counted) = Cardinality(args.start_year..(Y - 1))
                /\ ret.rows[i].Cumulative_Rent
                       = SumSeq([j \in 1..Len(counted) |-> counted[j].Yearly_Rent])

\* a table with a year before the purchase and two years after it
C22_Witness ==
    /\ Metrics
    /\ ret.status = "returned"
    /\ args.rent_df # <<>>
    /\ \E i, j \in 1..Len(ret.rows) :
           /\ ret.rows[i].Year < args.start_year
           /\ ret.rows[i].Yearly_Rent > 0
           /\ ret.rows[j].Year = args.start_year + 2
           /\ ret.rows[j].Cumulative_Rent > 0

-----------------------------------------------------------------------------
\* C23: in every apartment record the elapsed years are Y - purchaseYear, the
\* balance is remaining_balance(elapsed, 0.75 * initialPrice, rate, 12 * M,
\* termYears), the equity is price - balance, the nominal return is equity -
\* cumulative payments + cumulative rent, and the real return is the nominal
\* return multiplied by the inflation factor of the year
C23_ApartmentRecord ==
    (Metrics /\ ret.status = "returned") =>
        LET loan == Mul(args.P, MortgageShare)
            M == calculate_mortgage_payment(loan, args.interest_rate, args.term_years)
        IN  /\ Len(ret.rows) = Len(args.df)
            /\ \A i \in 1..Len(ret.rows) :
                   LET row == ret.rows[i]
                   IN  /\ row.Year = args.df[i].Year
                       /\ row.Price = args.df[i].Price
                       /\ row.k = row.Year - args.start_year
                       /\ row.Balance = remaining_balance(row.k, loan, args.interest_rate,
                                                          12 * M, args.term_years)
                       /\ row.Investment_Value = row.Price - row.Balance
                       /\ row.Investment_Return_Nominal
                              = row.Investment_Value - row.Cumulative_Payments
                                    + row.Cumulative_Rent
                       /\ row.Inflation_Factor = args.inflation_factors[row.Year]
                       /\ row.Investment_Return
                              = Mul(row.Investment_Return_Nominal, row.Inflation_Factor)

\* a record inside the term with a balance left, rent collected and an
\* inflation factor other than 1
C23_Witness ==
    /\ Metrics
    /\ ret.status = "returned"
    /\ \E i \in 1..Len(ret.rows) :
           /\ ret.rows[i].k > 0
           /\ ret.rows[i].k < args.term_years
           /\ ret.rows[i].Balance > 0
           /\ ret.rows[i].Cumulative_Rent > 0
           /\ ret.rows[i].Inflation_Factor # Num(1)
           /\ ret.rows[i].Investment_Return # ret.rows[i].Investment_Return_Nominal

-----------------------------------------------------------------------------
\* the blended annual return of a year with market data, for the allocation
\* of the call
BlendedReturn(year) ==
    Mul(DivInt(Num(args.sp500_allocation), 100), DivInt(args.stock_series[year], 100))
    + Mul(DivInt(Num(100 - args.sp500_allocation), 100),
          DivInt(args.bond_series[year], 100))

\* the years with a stock return and a bond return
HasMarketData(year) == year \in DOMAIN args.stock_series /\ year \in DOMAIN args.bond_series

\* C24: in a year with elapsed > termYears the portfolio value is the value
\* of the year before grown by the full blended annual return and then
\* reduced by the 0.03% management fee on the grown value only: nothing is
\* contributed, the transaction fees of the year are zero and the cumulative
\* transaction fees stay as they were
C24_AfterTheTerm ==
    (Portfolio /\ ret.status = "returned") =>
        \A i \in 2..Len(ret.rows) :
            LET row == ret.rows[i]
                prev == ret.rows[i - 1]
                grown == Mul(prev.Portfolio_Value, Num(1) + BlendedReturn(row.Year))
            IN  (row.Year - args.start_year > args.term_years /\ HasMarketData(row.Year)) =>
                    /\ row.Portfolio_Value = grown - Mul(grown, ManagementFeeRate)
                    /\ row.Annual_Management_Fees = Mul(grown, ManagementFeeRate)
                    /\ row.Cumulative_Investment = prev.Cumulative_Investment
                    /\ row.Monthly_Exchange_Fees = 0
                    /\ row.Cumulative_Monthly_Exchange_Fees
                           = prev.Cumulative_Monthly_Exchange_Fees

\* a year after the term that follows a year with contributions, with a
\* blended return other than zero
C24_Witness ==
    /\ Portfolio
    /\ ret.status = "returned"
    /\ \E i \in 2..Len(ret.rows) :
           /\ ret.rows[i].Year - args.start_year > args.term_years
           /\ HasMarketData(ret.rows[i].Year)
           /\ BlendedReturn(ret.rows[i].Year) # 0
           /\ ret.rows[i - 1].Cumulative_Monthly_Exchange_Fees > 0
           /\ ret.rows[i].Portfolio_Value # ret.rows[i - 1].Portfolio_Value

-----------------------------------------------------------------------------
\* n repetitions of "multiply by (1 + rate), then add the contribution"
RECURSIVE GrowThenAdd(_, _, _, _)
GrowThenAdd(value, rate, contribution, n) ==
    IF n = 0 THEN value
    ELSE GrowThenAdd(Mul(value, Num(1) + rate) + contribution, rate, contribution, n - 1)

\* C25: the first portfolio record has the value downPayment * (1 - 0.005)
\* and the cumulative principal downPayment; in each later year with elapsed
\* <= termYears the value goes through 12 repetitions of "multiply by
\* (1 + monthly rate), then add M * (1 - 0.005)" (the management fee of the
\* year is taken from the result), the cumulative principal grows by 12 * M
\* and the cumulative transaction fees grow by 12 * 0.005 * M.  An amount
\* x * (1 - 0.005) is taken as x less its fee x * 0.005, rounded once.
C25_ContributionYears ==
    (Portfolio /\ ret.status = "returned") =>
        LET down_payment == Mul(args.initial_price, DownPaymentShare)
            M == calculate_mortgage_payment(Mul(args.initial_price, MortgageShare),
                                            args.interest_rate, args.term_years)
        IN  /\ ret.rows[1].Portfolio_Value
                   = down_payment - Mul(down_payment, InitialExchangeFeeRate)
            /\ ret.rows[1].Cumulative_Investment = down_payment
            /\ ret.rows[1].Cumulative_Monthly_Exchange_Fees = 0
            /\ \A i \in 2..Len(ret.rows) :
                   LET row == ret.rows[i]
                       prev == ret.rows[i - 1]
                       monthly_rate == Root12(Num(1) + BlendedReturn(row.Year)) - Num(1)
                       after_12_months ==
                           GrowThenAdd(prev.Portfolio_Value, monthly_rate,
                                       M - Mul(M, MonthlyExchangeFeeRate), 12)
                   IN  (row.Year - args.start_year <= args.term_years
                            /\ HasMarketData(row.Year)) =>
                           /\ row.Portfolio_Value
                                  = after_12_months - Mul(after_12_months, ManagementFeeRate)
                           /\ row.Cumulative_Investment = prev.Cumulative_Investment + 12 * M
                           /\ row.Monthly_Exchange_Fees = 12 * Mul(M, MonthlyExchangeFeeRate)
                           /\ row.Cumulative_Monthly_Exchange_Fees
                                  = prev.Cumulative_Monthly_Exchange_Fees
                                        + 12 * Mul(M, MonthlyExchangeFeeRate)

\* two contribution years in a row with a monthly rate other than zero
C25_Witness ==
    /\ Portfolio
    /\ ret.status = "returned"
    /\ Len(ret.rows) >= 3
    /\ ret.rows[1].Portfolio_Value > 0
    /\ \A i \in 2..3 :
           /\ ret.rows[i].Year - args.start_year <= args.term_years
           /\ HasMarketData(ret.rows[i].Year)
           /\ BlendedReturn(ret.rows[i].Year) # 0
           /\ ret.rows[i].Monthly_Exchange_Fees > 0

-----------------------------------------------------------------------------
-----------------------------------------------------------------------------
\* the records are those of the years start_year, start_year + 1, ..., one
\* record a year, without a gap
ContiguousFrom(rows, start_year) ==
    /\ Len(rows) > 0
    /\ YearsOf(rows) = start_year..(start_year + Len(rows) - 1)

\* the simulator on its own: a successful call on a table that has no year
\* before start_year returns the years start_year, start_year + 1, ...
SimulatedYearsContiguous ==
    (/\ Metrics
     /\ ret.status = "returned"
     /\ \A y \in SimulatedYears : y >= args.start_year)
        => ContiguousFrom(ret.rows, args.start_year)

\* the price table and the common years of a request
RequestPrices == load_apartment_data(args.apartment_region, args.apartment_rooms)
RequestCommonYears == args.apartment_region.apt \cap args.apartment_region.rent

\* a start year within the range of the common years that has no price row
StartYearInAGap ==
    /\ fn = "update_graph"
    /\ RequestCommonYears # {}
    /\ args.start_year >= SetMin(RequestCommonYears)
    /\ args.start_year <= SetMax(RequestCommonYears)
    /\ args.start_year \notin YearsOf(RequestPrices)

\* C27: a request that yields a comparison simulated a run of consecutive
\* years that begins at start_year itself, the initial price is the price of
\* start_year and the first portfolio record is that of start_year; a start
\* year within the range of the common years but absent from the price
\* series never yields a comparison
C27_ContiguousFromStartYear ==
    /\ (fn = "update_graph" /\ ret.shows = "graph") =>
           /\ ContiguousFrom(ret.df_apartment, args.start_year)
           /\ ContiguousFrom(ret.df_market, args.start_year)
           /\ ret.df_market[1].Year = args.start_year
           /\ args.start_year \in YearsOf(RequestPrices)
           /\ ret.initial_price = RowOf(RequestPrices, args.start_year).Price
    /\ StartYearInAGap => ret.shows = "message"

\* a comparison that starts after the first year of the price series
C27_Witness ==
    /\ fn = "update_graph"
    /\ ret.shows = "graph"
    /\ args.start_year > SetMin(YearsOf(RequestPrices))
    /\ Len(ret.df_apartment) >= 2
    /\ ret.initial_price # RequestPrices[1].Price

-----------------------------------------------------------------------------
\* the price rows of a request that the filter Year >= start_year keeps
RowsAfterFilter ==
    SelectIdx(RequestPrices, LAMBDA i : RequestPrices[i].Year >= args.start_year)

\* C28: no request ends in EMPTY_AFTER_FILTER: whenever the common years of
\* the price and rent series are not empty and start_year lies within their
\* [min, max], at least one price row with Year >= start_year remains after
\* the filter
C28_NeverEmptyAfterFilter ==
    fn = "update_graph" =>
        /\ ret.scenario # "EMPTY_AFTER_FILTER"
        /\ (/\ RequestCommonYears # {}
            /\ args.start_year >= SetMin(RequestCommonYears)
            /\ args.start_year <= SetMax(RequestCommonYears))
               => (Len(RowsAfterFilter) > 0 /\ ret.scenario = "OK")

\* a request for the last common year, where the filter drops earlier rows
\* and keeps one
C28_Witness ==
    /\ fn = "update_graph"
    /\ RequestCommonYears # {}
    /\ args.start_year = SetMax(RequestCommonYears)
    /\ args.start_year > SetMin(RequestCommonYears)
    /\ Len(RowsAfterFilter) = 1
    /\ Len(RequestPrices) > 1
    /\ ret.scenario = "OK"

-----------------------------------------------------------------------------
\* the value of the portfolio in the i-th record before the management fee
\* of that year is taken: the invested down payment in the first year, the
\* grown value in a later year
ValueBeforeManagementFee(i) ==
    LET down_payment == Mul(args.initial_price, DownPaymentShare)
        M == calculate_mortgage_payment(Mul(args.initial_price, MortgageShare),
                                        args.interest_rate, args.term_years)
        row == ret.rows[i]
        prev == ret.rows[i - 1]
        monthly_rate == Root12(Num(1) + BlendedReturn(row.Year)) - Num(1)
    IN  IF i = 1
        THEN down_payment - Mul(down_payment, InitialExchangeFeeRate)
        ELSE IF row.Year - args.start_year <= args.term_years
        THEN GrowThenAdd(prev.Portfolio_Value, monthly_rate,
                         M - Mul(M, MonthlyExchangeFeeRate), 12)
        ELSE Mul(prev.Portfolio_Value, Num(1) + BlendedReturn(row.Year))

\* the management fee taken from the value in the i-th record
DeductedManagementFee(i) == ValueBeforeManagementFee(i) - ret.rows[i].Portfolio_Value

\* C29: in every portfolio record the management fee recorded for the year,
\* the first year included, has been subtracted from the year's portfolio
\* value, and the cumulative management fee is the total deducted so far
C29_ManagementFeesDeducted ==
    (/\ Portfolio
     /\ ret.status = "returned"
     /\ \A y \in YearsOf(ret.rows) : HasMarketData(y)) =>
        \A i \in 1..Len(ret.rows) :
            /\ ret.rows[i].Annual_Management_Fees = DeductedManagementFee(i)
            /\ ret.rows[i].Cumulative_Management_Fees
                   = SumSeq([j \in 1..i |-> DeductedManagementFee(j)])

\* the fees of the years after the first are deducted as recorded
ManagementFeesDeductedAfterFirstYear ==
    (/\ Portfolio
     /\ ret.status = "returned"
     /\ \A y \in YearsOf(ret.rows) : HasMarketData(y)) =>
        \A i \in 2..Len(ret.rows) :
            /\ ret.rows[i].Annual_Management_Fees = DeductedManagementFee(i)
            /\ ret.rows[i].Cumulative_Management_Fees
                   = ret.rows[i - 1].Cumulative_Management_Fees + DeductedManagementFee(i)

-----------------------------------------------------------------------------
\* the initial exchange fee of a call: 0.5% of the down payment
InitialExchangeFeeCharged ==
    Mul(Mul(args.initial_price, DownPaymentShare), InitialExchangeFeeRate)

\* C30: in every portfolio record Total_Fees is the sum of the fees charged
\* up to that year: the initial exchange fee, the cumulative monthly
\* transaction fees, the cumulative management fees and the liquidation fee
\* of the year; the initial exchange fee is part of the total of every year
C30_TotalFeesOfEveryYear ==
    (Portfolio /\ ret.status = "returned") =>
        \A i \in 1..Len(ret.rows) :
            ret.rows[i].Total_Fees
                = InitialExchangeFeeCharged
                  + ret.rows[i].Cumulative_Monthly_Exchange_Fees
                  + ret.rows[i].Cumulative_Management_Fees
                  + ret.rows[i].Final_Exchange_Fee

\* the total of the first year has the initial exchange fee, and the total
\* of every year has the other three fees
TotalFeesWithoutInitialFeeAfterFirstYear ==
    (Portfolio /\ ret.status = "returned") =>
        \A i \in 1..Len(ret.rows) :
            ret.rows[i].Total_Fees
                = (IF i = 1 THEN InitialExchangeFeeCharged ELSE 0)
                  + ret.rows[i].Cumulative_Monthly_Exchange_Fees
                  + ret.rows[i].Cumulative_Management_Fees
                  + ret.rows[i].Final_Exchange_Fee

=============================================================================
